---------------------------- MODULE Spec2Model ----------------------------
(***************************************************************************)
(* A model of permpy's Permutation value type (src/permpy/permutation.py): *)
(* the per-instance bound cache, the pattern-containment search            *)
(* (involved_in / involves / avoids) and the decompositions (sum, skew,    *)
(* substitution) with the interval primitives they use.                    *)
(*                                                                         *)
(* A permutation is a sequence of the values 0..n-1.  Python indices are   *)
(* 0-based and are kept 0-based in every index the code computes (bounds,  *)
(* search indices, interval starts); At/Store translate to the 1-based     *)
(* sequences of TLA+.                                                      *)
(***************************************************************************)
EXTENDS Integers, Sequences, FiniteSets, TLC

VARIABLES
    heap,   \* the live Permutation instances: entries and instance __dict__
    cls,    \* the class-level attributes of Permutation
    ret,    \* the last call: operation, arguments, returned value or error
    writes, \* per instance, how often the bound cache has been assigned
    call    \* the call that is followed step by step: its locals and position

vars == <<heap, cls, ret, writes, call>>

-----------------------------------------------------------------------------
(* Bounds of the model *)

\* longest pattern drawn for a containment query
MaxPat == 3
\* longest target drawn for a containment query
MaxTgt == 4
\* longest permutation among the instances whose caches are followed
MaxCached == 3
\* longest permutation that is decomposed
MaxLen == 6
\* longest base that is inflated; components are as long and one more
\* component than the base has entries may be supplied
MaxBase == 2

-----------------------------------------------------------------------------
(* Python lists and tuples *)

\* s[i] for a 0-based index i; a negative index counts from the end
At(s, i) == IF i < 0 THEN s[Len(s) + i + 1] ELSE s[i + 1]

\* s[i] = v on a list, 0-based, negative indices from the end
Store(s, i, v) ==
    LET k == IF i < 0 THEN Len(s) + i + 1 ELSE i + 1
    IN  [s EXCEPT ![k] = v]

\* list(range(a, b))
Range(a, b) == [k \in 1..(IF b > a THEN b - a ELSE 0) |-> a + k - 1]

\* [v]*n
Repeat(v, n) == [k \in 1..n |-> v]

\* s[a:b] for 0 <= a, b <= len(s)
Slice(s, a, b) == IF b > a THEN SubSeq(s, a + 1, b) ELSE << >>

\* the permutations of 0..n-1, as tuples
PermsOfLen(n) ==
    {s \in [1..n -> 0..(n - 1)] : \A i, j \in 1..n : i # j => s[i] # s[j]}

\* the permutations of length at most m
PermsUpTo(m) == UNION {PermsOfLen(n) : n \in 0..m}

-----------------------------------------------------------------------------
(* Class attributes, instances and attribute lookup *)

ClassDefaults ==
    [lower_bound |-> << >>, upper_bound |-> << >>, bounds_set |-> FALSE,
     insertion_values |-> << >>]

\* the instance __dict__ after __init__
InitDict(entries) == [insertion_values |-> Range(0, Len(entries) + 1)]

\* Permutation(p, clean=True) / Permutation(list): a fresh instance
NewInstance(entries) == [entries |-> entries, dict |-> InitDict(entries)]

\* self.a : the instance __dict__ first, then the class
GetAttr(inst, c, a) == IF a \in DOMAIN inst.dict THEN inst.dict[a] ELSE c[a]

\* self.a = v : always writes the instance __dict__
SetAttr(inst, a, v) ==
    [inst EXCEPT !.dict =
        [x \in (DOMAIN inst.dict) \cup {a} |-> IF x = a THEN v ELSE inst.dict[x]]]

\* Permutation(p) for p already a Permutation: __new__ returns p itself and
\* __init__ runs on it again
Rewrap(inst) ==
    SetAttr(inst, "insertion_values", Range(0, Len(inst.entries) + 1))

-----------------------------------------------------------------------------
(* set_up_bounds *)

RECURSIVE BoundsInnerNoMax(_, _, _, _)
\* a variant that takes every smaller value, not only one above max_below
BoundsInnerNoMax(L, i, j, st) ==
    IF j >= Len(L) THEN st
    ELSE BoundsInnerNoMax(L, i, j + 1,
            IF At(L, j) < At(L, i)
            THEN [st EXCEPT !.max_below = At(L, j), !.lower = j]
            ELSE IF At(L, j) < st.min_above \/ st.min_above = -1
                 THEN [st EXCEPT !.min_above = At(L, j), !.upper = j]
                 ELSE st)

RECURSIVE BoundsInner(_, _, _, _)
\* the inner loop "for j in range(i+1, len(self))" for one i
BoundsInner(L, i, j, st) ==
    IF j >= Len(L) THEN st
    ELSE BoundsInner(L, i, j + 1,
            IF At(L, j) < At(L, i)
            THEN IF At(L, j) > st.max_below
                 THEN [st EXCEPT !.max_below = At(L, j), !.lower = j]
                 ELSE st
            ELSE IF At(L, j) < st.min_above \/ st.min_above = -1
                 THEN [st EXCEPT !.min_above = At(L, j), !.upper = j]
                 ELSE st)

\* returns <<lower_bound, upper_bound>>
set_up_bounds(L) ==
    LET n == Len(L)
        row(i) == BoundsInner(L, i, i + 1,
                    [min_above |-> -1, max_below |-> -1,
                     lower |-> -1, upper |-> -1])
    IN  << [k \in 1..n |-> row(k - 1).lower],
           [k \in 1..n |-> row(k - 1).upper] >>

-----------------------------------------------------------------------------
(* The containment search *)

\* a variant that tests the lower bound only
involvement_fits_lower_only(upper_bound, lower_bound, indices, q, next) ==
    \/ At(lower_bound, next) = -1
    \/ At(q, At(indices, next)) > At(q, At(indices, At(lower_bound, next)))

involvement_fits(upper_bound, lower_bound, indices, q, next) ==
    /\ \/ At(lower_bound, next) = -1
       \/ At(q, At(indices, next)) > At(q, At(indices, At(lower_bound, next)))
    /\ \/ At(upper_bound, next) = -1
       \/ At(q, At(indices, next)) < At(q, At(indices, At(upper_bound, next)))

RECURSIVE involvement_check(_, _, _, _, _, _)
RECURSIVE involvement_while(_, _, _, _, _, _)
RECURSIVE involvement_retry(_, _, _, _, _, _)
\* returns the boolean and the working list indices as the call leaves it
involvement_check(self, upper_bound, lower_bound, indices, q, next) ==
    IF next < 0 THEN [ok |-> TRUE, indices |-> indices]
    ELSE involvement_while(self, upper_bound, lower_bound,
            Store(indices, next, At(indices, next + 1) - 1), q, next)

\* the loop "while indices[next] >= 0" of involvement_check
involvement_while(self, upper_bound, lower_bound, indices, q, next) ==
    IF At(indices, next) < 0 THEN [ok |-> FALSE, indices |-> indices]
    ELSE IF ~involvement_fits(upper_bound, lower_bound, indices, q, next)
    THEN involvement_while(self, upper_bound, lower_bound,
            Store(indices, next, At(indices, next) - 1), q, next)
    ELSE involvement_retry(self, upper_bound, lower_bound,
            involvement_check(self, upper_bound, lower_bound, indices, q, next - 1),
            q, next)

\* after the recursive call returned r: return True, or "indices[next] -= 1"
\* and go round the loop again
involvement_retry(self, upper_bound, lower_bound, r, q, next) ==
    IF r.ok THEN r
    ELSE involvement_while(self, upper_bound, lower_bound,
            Store(r.indices, next, At(r.indices, next) - 1), q, next)

\* a variant that tests position len(self)-i instead of len(self)-i-1
involvement_check_final_shifted(self, upper_bound, lower_bound, indices, q, last_require) ==
    \A i \in 1..(last_require - 1) :
        involvement_fits(upper_bound, lower_bound, indices, q, Len(self) - i)

\* for i in range(1, last_require): fits at len(self)-i-1
involvement_check_final(self, upper_bound, lower_bound, indices, q, last_require) ==
    \A i \in 1..(last_require - 1) :
        involvement_fits(upper_bound, lower_bound, indices, q, Len(self) - i - 1)

\* a variant that tries the last position of the target only
LastLoopOnce(self, upper_bound, lower_bound, indices, P) ==
    IF At(indices, Len(self) - 1) < 0 THEN FALSE
    ELSE involvement_check(self, upper_bound, lower_bound, indices, P,
                           Len(self) - 2).ok

RECURSIVE LastLoop(_, _, _, _, _)
RECURSIVE LastRetry(_, _, _, _, _)
\* the loop "while indices[len(self)-1] >= 0" of involved_in
LastLoop(self, upper_bound, lower_bound, indices, P) ==
    IF At(indices, Len(self) - 1) < 0 THEN FALSE
    ELSE LastRetry(self, upper_bound, lower_bound,
            involvement_check(self, upper_bound, lower_bound, indices, P,
                              Len(self) - 2), P)

\* after involvement_check returned r: return True, or
\* "indices[len(self)-1] -= 1" and go round the loop again
LastRetry(self, upper_bound, lower_bound, r, P) ==
    IF r.ok THEN TRUE
    ELSE LastLoop(self, upper_bound, lower_bound,
            Store(r.indices, Len(self) - 1, At(r.indices, Len(self) - 1) - 1), P)

RECURSIVE PinLast(_, _, _, _, _)
\* for i in range(1, last_require+1): indices[n-i] = p-i
PinLast(indices, n, p, i, last_require) ==
    IF i > last_require THEN indices
    ELSE PinLast(Store(indices, n - i, p - i), n, p, i + 1, last_require)

\* a variant that returns True for a short pattern whatever the target
IsDegenerateAnyTarget(n, p) == n <= 1

\* line 1025: n <= 1 and n <= p
IsDegenerate(n, p) == n <= 1 /\ n <= p

\* the body of involved_in after the cache is set up: self and P are the
\* entries, upper_bound and lower_bound are self's cached attributes
involved_in_search(self, upper_bound, lower_bound, P, last_require) ==
    LET n == Len(self)
        p == Len(P)
    IN  IF IsDegenerate(n, p) THEN TRUE
        ELSE IF last_require = 0
        THEN LastLoop(self, upper_bound, lower_bound,
                      Store(Repeat(0, n), n - 1, p - 1), P)
        ELSE LET indices == PinLast(Repeat(0, n), n, p, 1, last_require)
             IN  IF ~involvement_check_final(self, upper_bound, lower_bound,
                                             indices, P, last_require)
                 THEN FALSE
                 ELSE involvement_check(self, upper_bound, lower_bound, indices,
                                        P, n - last_require - 1).ok

-----------------------------------------------------------------------------------------------------------------------------------------------------
(* involved_in, involves, avoids on instances *)

\* a variant that never assigns self.bounds_set
FillCacheNoFlag(h, c, i) ==
    IF GetAttr(h[i], c, "bounds_set") THEN h
    ELSE [h EXCEPT ![i] =
            SetAttr(SetAttr(h[i],
                "lower_bound", set_up_bounds(h[i].entries)[1]),
                "upper_bound", set_up_bounds(h[i].entries)[2])]

\* lines 1019-1021: fill the cache of instance i unless self.bounds_set
FillCache(h, c, i) ==
    IF GetAttr(h[i], c, "bounds_set") THEN h
    ELSE [h EXCEPT ![i] =
            SetAttr(SetAttr(SetAttr(h[i],
                "lower_bound", set_up_bounds(h[i].entries)[1]),
                "upper_bound", set_up_bounds(h[i].entries)[2]),
                "bounds_set", TRUE)]

\* lines 1022-1043 on the heap h in which the cache of i is set up
SearchOn(h, c, i, j, last_require) ==
    [heap |-> h,
     val  |-> involved_in_search(h[i].entries,
                                 GetAttr(h[i], c, "upper_bound"),
                                 GetAttr(h[i], c, "lower_bound"),
                                 h[j].entries, last_require)]

\* h[i].involved_in(h[j], last_require): the heap afterwards and the value
involved_in(h, c, i, j, last_require) ==
    SearchOn(FillCache([h EXCEPT ![j] = Rewrap(h[j])], c, i), c, i, j, last_require)

\* h[i].involves(h[j], lr): Permutation(P).involved_in(self, last_require=lr)
involves(h, c, i, j, lr) ==
    involved_in([h EXCEPT ![j] = Rewrap(h[j])], c, j, i, lr)

Negated(r) == [heap |-> r.heap, val |-> ~r.val]

\* h[i].avoids(h[j], lr): not Permutation(p).involved_in(self, last_require=lr)
avoids(h, c, i, j, lr) ==
    Negated(involved_in([h EXCEPT ![j] = Rewrap(h[j])], c, j, i, lr))

\* the offsets a query is made with: 0, or 1 <= r <= len(pattern) <= len(target)
Offsets(pattern, target) ==
    {0} \cup (IF Len(pattern) <= Len(target) THEN 1..Len(pattern) ELSE {})

NoCall == [op |-> "none"]

\* no call is being followed step by step
Idle == [op |-> "none", pc |-> "idle"]

\* the state after a query with pattern heap[pat] and target heap[tgt]
\* returned r; writes counts the executions of line 1020
Returned(r, name, pat, tgt, lr) ==
    /\ heap' = r.heap
    /\ writes' = IF GetAttr(heap[pat], cls, "bounds_set") THEN writes
                 ELSE [writes EXCEPT ![pat] = @ + 1]
    /\ ret' = [op |-> name, pattern_id |-> pat, target_id |-> tgt,
               last_require |-> lr, pattern |-> heap[pat].entries,
               target |-> heap[tgt].entries, outcome |-> "ok", val |-> r.val]
    /\ UNCHANGED << cls, call >>

InvolvedIn(i, j, lr) ==
    /\ lr \in Offsets(heap[i].entries, heap[j].entries)
    /\ Returned(involved_in(heap, cls, i, j, lr), "involved_in", i, j, lr)

Involves(i, j, lr) ==
    /\ lr \in Offsets(heap[j].entries, heap[i].entries)
    /\ Returned(involves(heap, cls, i, j, lr), "involves", j, i, lr)

Avoids(i, j, lr) ==
    /\ lr \in Offsets(heap[j].entries, heap[i].entries)
    /\ Returned(avoids(heap, cls, i, j, lr), "avoids", j, i, lr)

-----------------------------------------------------------------------------
(* delete *)

\* delete(indices=k) for an integer k: list(k) raises TypeError and the
\* except branch (lines 436-438) removes the value at k and closes the gap
delete(self, indices) ==
    LET val  == At(self, indices)
        kept == SelectSeq(self, LAMBDA old_val : old_val # val)
    IN  [k \in 1..Len(kept) |-> IF kept[k] < val THEN kept[k] ELSE kept[k] - 1]

\* heap[j] = heap[j].delete(indices=k): the name is rebound to the new instance
Delete(j, k) ==
    /\ k \in 0..(Len(heap[j].entries) - 1)
    /\ heap' = [heap EXCEPT ![j] = NewInstance(delete(heap[j].entries, k))]
    /\ ret' = [op |-> "delete", self |-> j, indices |-> k,
               before |-> heap[j].entries, outcome |-> "ok",
               val |-> delete(heap[j].entries, k)]
    /\ writes' = [writes EXCEPT ![j] = 0]
    /\ UNCHANGED << cls, call >>

-----------------------------------------------------------------------------------------------------------------------------------------------------
(* Construction from a list, direct sum, skew sum *)

\* Permutation.standardize(L): tuple(ordered.index(x) for x in L)
standardize(L) ==
    [k \in 1..Len(L) |-> Cardinality({y \in {L[m] : m \in 1..Len(L)} : y < L[k]})]

\* the assertion of standardize: len(set(L)) == len(L)
Distinct(L) == Cardinality({L[m] : m \in 1..Len(L)}) = Len(L)

\* a variant that does not shift the entries of other
add_unshifted(self, other) == self \o other

\* self + other
add(self, other) ==
    self \o [k \in 1..Len(other) |-> other[k] + Len(self)]

\* self - other
sub(self, other) ==
    [k \in 1..Len(self) |-> self[k] + Len(other)] \o other

-----------------------------------------------------------------------------
(* Sum and skew decomposition *)

RECURSIVE SumCutRightmost(_, _, _, _)
\* a variant that goes on to the last idx at which indices == vals
SumCutRightmost(self, idx, indices, vals) ==
    IF idx >= Len(self) - 1 THEN -1
    ELSE IF SumCutRightmost(self, idx + 1, indices \cup {idx},
                            vals \cup {At(self, idx)}) # -1
    THEN SumCutRightmost(self, idx + 1, indices \cup {idx},
                         vals \cup {At(self, idx)})
    ELSE IF indices \cup {idx} = vals \cup {At(self, idx)} THEN idx
    ELSE -1

RECURSIVE SumCut(_, _, _, _)
\* the loop of sum_decomposition over enumerate(self[:-1]) from idx on:
\* the first idx at which indices == vals, or -1 when the loop runs out
SumCut(self, idx, indices, vals) ==
    IF idx >= Len(self) - 1 THEN -1
    ELSE IF indices \cup {idx} = vals \cup {At(self, idx)} THEN idx
    ELSE SumCut(self, idx + 1, indices \cup {idx}, vals \cup {At(self, idx)})

RECURSIVE sum_decomposition(_)
RECURSIVE SumSplit(_, _)
sum_decomposition(self) ==
    IF Len(self) = 0 THEN << >>
    ELSE SumSplit(self, SumCut(self, 0, {}, {}))

\* lines 617-622 for the cut idx the loop found
SumSplit(self, idx) ==
    IF idx = -1 THEN << self >>
    ELSE << Slice(self, 0, idx + 1) >>
         \o sum_decomposition(
                [k \in 1..(Len(self) - idx - 1) |-> self[idx + 1 + k] - idx - 1])

\* a variant whose loop runs over self, not over self[:-1]
sum_decomposable_whole(self) ==
    SumCut(Append(self, Len(self)), 0, {}, {}) # -1

\* sum_decomposable: the same loop as in sum_decomposition, True at the
\* first idx with indices == vals and False when the loop runs out
sum_decomposable(self) == SumCut(self, 0, {}, {}) # -1

RECURSIVE SkewCut(_, _, _, _)
\* the loop of skew_decomposition: vals collects n-val-1
SkewCut(self, idx, indices, vals) ==
    IF idx >= Len(self) - 1 THEN -1
    ELSE IF indices \cup {idx} = vals \cup {Len(self) - At(self, idx) - 1} THEN idx
    ELSE SkewCut(self, idx + 1, indices \cup {idx},
                 vals \cup {Len(self) - At(self, idx) - 1})

RECURSIVE skew_decomposition(_)
RECURSIVE SkewSplit(_, _)
skew_decomposition(self) ==
    IF Len(self) = 0 THEN << >>
    ELSE SkewSplit(self, SkewCut(self, 0, {}, {}))

\* a variant whose first component is shifted by n-idx
SkewSplitOffByOne(self, idx) ==
    IF idx = -1 THEN << self >>
    ELSE << [k \in 1..(idx + 1) |-> self[k] - (Len(self) - idx)] >>
         \o skew_decomposition(Slice(self, idx + 1, Len(self)))

\* lines 668-673 for the cut idx the loop found
SkewSplit(self, idx) ==
    IF idx = -1 THEN << self >>
    ELSE << [k \in 1..(idx + 1) |-> self[k] - (Len(self) - idx) + 1] >>
         \o skew_decomposition(Slice(self, idx + 1, Len(self)))

\* skew_decomposable: the same loop as in skew_decomposition
skew_decomposable(self) == SkewCut(self, 0, {}, {}) # -1

\* complement: n-1-i for each entry
complement(self) == [k \in 1..Len(self) |-> (Len(self) - 1) - self[k]]

-----------------------------------------------------------------------------
(* Intervals *)

Max(S) == CHOOSE x \in S : \A y \in S : y <= x
Min(S) == CHOOSE x \in S : \A y \in S : x <= y

\* max(self[j:j+i]) - min(self[j:j+i]) == i-1
IsBlock(self, i, j) ==
    Max({At(self, k) : k \in j..(j + i - 1)})
        - Min({At(self, k) : k \in j..(j + i - 1)}) = i - 1

\* a variant whose inner loop is range(0, len(self)-i)
BlockStartsShort(self, i) ==
    SelectSeq(Range(0, Len(self) - i), LAMBDA j : IsBlock(self, i, j))

\* the inner loop of all_intervals for one i: the j of range(0, len(self)-i+1)
\* at which the test holds, in the order they are appended
BlockStarts(self, i) ==
    SelectSeq(Range(0, Len(self) - i + 1), LAMBDA j : IsBlock(self, i, j))

\* all_intervals(): blocks[0] and blocks[1] are empty, blocks[i] is appended
\* for i in range(2, len(self))
all_intervals(self) ==
    << << >>, << >> >> \o [k \in 1..(Len(self) - 2) |-> BlockStarts(self, k + 1)]

RECURSIVE MaximalScan(_, _, _)
\* the loops of maximal_interval from (i, j) on: i descends from len-1 to 2,
\* j ascends from 0 to len-i
MaximalScan(self, i, j) ==
    IF i < 2 THEN << 0, 0 >>
    ELSE IF j > Len(self) - i THEN MaximalScan(self, i - 1, 0)
    ELSE IF IsBlock(self, i, j) THEN << i, j >>
    ELSE MaximalScan(self, i, j + 1)

\* a variant that starts at length len-2
maximal_interval_short(self) == MaximalScan(self, Len(self) - 2, 0)

maximal_interval(self) == MaximalScan(self, Len(self) - 1, 0)

\* min and max of two integers
Min2(a, b) == IF a < b THEN a ELSE b
Max2(a, b) == IF a > b THEN a ELSE b

RECURSIVE SimpleScan(_, _, _, _, _)
RECURSIVE SimpleTest(_, _, _, _, _)
\* the loops of simple_location from (i, j) on: i ascends from 1 to len-2,
\* j descends from len-1 to i; mins and maxs are updated in place
SimpleScan(self, mins, maxs, i, j) ==
    IF i >= Len(self) - 1 THEN << 0, 0 >>
    ELSE IF j < i THEN SimpleScan(self, mins, maxs, i + 1, Len(self) - 1)
    ELSE SimpleTest(self,
            Store(mins, j, Min2(At(mins, j - 1), At(self, j))),
            Store(maxs, j, Max2(At(maxs, j - 1), At(self, j))), i, j)

\* lines 1151-1152 after mins[j] and maxs[j] are assigned
SimpleTest(self, mins, maxs, i, j) ==
    IF At(maxs, j) - At(mins, j) = i THEN << i, j >>
    ELSE SimpleScan(self, mins, maxs, i, j - 1)

simple_location(self) == SimpleScan(self, self, self, 1, Len(self) - 1)

\* is_simple: the permutation has no interval of length 2..len-1
is_simple(self) ==
    \A i \in 2..(Len(self) - 1) : \A j \in 0..(Len(self) - i) :
        ~IsBlock(self, i, j)

-----------------------------------------------------------------------------
(* Substitution decomposition and inflation *)

RECURSIVE DecompositionLoop(_, _)
RECURSIVE DecompositionStep(_, _, _)
\* the loop "while not base.is_simple()" of decomposition
DecompositionLoop(base, components) ==
    IF is_simple(base)
    THEN [outcome |-> "ok", base |-> base, components |-> components]
    ELSE IF Len(base) # Len(components)
    THEN [outcome |-> "AssertionError"]
    ELSE DecompositionStep(base, components, maximal_interval(base))

\* lines 1166-1175 for the interval ij = (i, j) that maximal_interval returned
DecompositionStep(base, components, ij) ==
    IF ij[1] = 0 THEN [outcome |-> "AssertionError"]
    ELSE DecompositionLoop(
            standardize(Slice(base, 0, ij[2]) \o << At(base, ij[2]) >>
                        \o Slice(base, ij[1] + ij[2], Len(base))),
            Slice(components, 0, ij[2])
                \o << standardize(Slice(base, ij[2], ij[1] + ij[2])) >>
                \o Slice(components, ij[1] + ij[2], Len(base)))

\* decomposition(): components start as len(self) copies of Permutation([1])
decomposition(self) ==
    DecompositionLoop(self, Repeat(standardize(<< 1 >>), Len(self)))

\* self.index(value)
IndexOf(self, value) == (CHOOSE k \in 1..Len(self) : self[k] = value) - 1

RECURSIVE InflateLoop(_, _, _, _, _)
\* a variant that shifts by one per component, not by its length
InflateLoopShiftOne(self, components, inflated, vertical_shift, value) ==
    IF value >= Len(self) THEN inflated
    ELSE InflateLoop(self, components,
            Store(inflated, IndexOf(self, value),
                  [k \in 1..Len(At(components, IndexOf(self, value))) |->
                      At(components, IndexOf(self, value))[k] + vertical_shift]),
            vertical_shift + 1,
            value + 1)

\* the loop "for value in range(n)" of inflate from value on
InflateLoop(self, components, inflated, vertical_shift, value) ==
    IF value >= Len(self) THEN inflated
    ELSE InflateLoop(self, components,
            Store(inflated, IndexOf(self, value),
                  [k \in 1..Len(At(components, IndexOf(self, value))) |->
                      At(components, IndexOf(self, value))[k] + vertical_shift]),
            vertical_shift + Len(At(components, IndexOf(self, value))),
            value + 1)

RECURSIVE Flatten(_)
\* [val for component in inflated for val in component]
Flatten(lists) ==
    IF Len(lists) = 0 THEN << >> ELSE Head(lists) \o Flatten(Tail(lists))

\* Permutation(inflated_flat) on the flattened list
InflateResult(inflated_flat) ==
    IF Distinct(inflated_flat)
    THEN [outcome |-> "ok", val |-> standardize(inflated_flat)]
    ELSE [outcome |-> "AssertionError"]

\* a variant that refuses too few components only
inflate_too_few_only(self, components) ==
    IF Len(self) > Len(components) THEN [outcome |-> "ValueError"]
    ELSE InflateResult(Flatten(
            InflateLoop(self, components, Repeat(<< >>, Len(self)), 0, 0)))

\* self.inflate(components): self is the entries, components a list of entries
inflate(self, components) ==
    IF Len(self) # Len(components) THEN [outcome |-> "ValueError"]
    ELSE InflateResult(Flatten(
            InflateLoop(self, components, Repeat(<< >>, Len(self)), 0, 0)))

-----------------------------------------------------------------------------
(* Containment queries: instance 1 is the pattern A, instance 2 the target B *)

Init ==
    /\ \E A \in PermsUpTo(MaxPat), B \in PermsUpTo(MaxTgt) :
          heap = << NewInstance(A), NewInstance(B) >>
    /\ cls = ClassDefaults
    /\ ret = NoCall
    /\ call = Idle
    /\ writes = << 0, 0 >>

Next ==
    \/ \E lr \in 0..MaxPat : InvolvedIn(1, 2, lr)
    \/ Involves(2, 1, 0)
    \/ Avoids(2, 1, 0)

Spec == Init /\ [][Next]_vars

(* Deleting entries of the target B between avoidance queries *)

NextDelete ==
    \/ \E k \in 0..(MaxTgt - 1) : Delete(2, k)
    \/ Avoids(2, 1, 0)

SpecDelete == Init /\ [][NextDelete]_vars

-----------------------------------------------------------------------------
(* Containment by enumeration of the index subsets *)

\* the number of elements of S below a: the 0-based place of a in sorted S
Rank(S, a) == Cardinality({d \in S : d < a})

\* the values of B at the positions S, read in position order, are
\* order-isomorphic to A
OrderIsomorphic(A, B, S) ==
    \A a, b \in S :
        (At(B, a) < At(B, b)) <=> (At(A, Rank(S, a)) < At(A, Rank(S, b)))

IndexSubsets(A, B) ==
    {S \in SUBSET (0..(Len(B) - 1)) : Cardinality(S) = Len(A)}

Occurs(A, B) == \E S \in IndexSubsets(A, B) : OrderIsomorphic(A, B, S)

\* an occurrence whose last r positions are the last r positions of B
OccursAtEnd(A, B, r) ==
    \E S \in IndexSubsets(A, B) :
        /\ (Len(B) - r)..(Len(B) - 1) \subseteq S
        /\ OrderIsomorphic(A, B, S)

IsQuery == ret.op \in {"involved_in", "involves", "avoids"}

\* C1: with last_require = 0, involved_in returns a boolean, True iff some
\* index subset of the target is order-isomorphic to the pattern (so False
\* when the pattern is longer); involves returns the same and avoids the
\* negation.
C1_ContainmentIsBruteForce ==
    (IsQuery /\ ret.last_require = 0) =>
        /\ ret.outcome = "ok"
        /\ ret.val \in BOOLEAN
        /\ ret.op \in {"involved_in", "involves"} =>
              ret.val = Occurs(ret.pattern, ret.target)
        /\ ret.op = "avoids" => ret.val = ~Occurs(ret.pattern, ret.target)
        /\ Len(ret.pattern) > Len(ret.target) => ret.val = (ret.op = "avoids")

C1_Witness ==
    /\ ret.op = "involved_in"
    /\ ret.last_require = 0
    /\ Len(ret.pattern) = 3
    /\ Len(ret.target) = 4
    /\ ret.val = TRUE

C8_DegenerateContainment ==
    (ret.op = "involved_in" /\ ret.last_require = 0 /\ Len(ret.pattern) <= 1) =>
        /\ Len(ret.pattern) <= Len(ret.target) => ret.val = TRUE
        /\ (Len(ret.pattern) = 1 /\ Len(ret.target) = 0) => ret.val = FALSE

C8_Witness ==
    /\ ret.op = "involved_in"
    /\ ret.last_require = 0
    /\ Len(ret.pattern) = 0
    /\ Len(ret.target) >= 1
    /\ ret.val = TRUE

\* P.avoids(Q) for fresh instances of the entries P and Q
AvoidsValue(P, Q) ==
    avoids(<< NewInstance(Q), NewInstance(P) >>, ClassDefaults, 2, 1, 0).val

\* C7: if P avoids Q then P with one position deleted avoids Q.
C7_AvoidanceSurvivesDeletion ==
    ret.op = "delete" =>
        (AvoidsValue(ret.before, heap[1].entries)
            => AvoidsValue(ret.val, heap[1].entries))

C7_Witness ==
    /\ ret.op = "delete"
    /\ Len(heap[1].entries) = 3
    /\ Len(ret.before) = 4
    /\ Occurs(<< 0, 1 >>, ret.before)
    /\ Occurs(<< 1, 0 >>, ret.before)
    /\ AvoidsValue(ret.before, heap[1].entries)
    /\ AvoidsValue(ret.val, heap[1].entries)

-----------------------------------------------------------------------------
(* The bound cache over sequences of queries between two instances, either *)
(* of which may be the pattern, the target or both                         *)

InitCache ==
    /\ \E A, B \in PermsUpTo(MaxCached) :
          heap = << NewInstance(A), NewInstance(B) >>
    /\ cls = ClassDefaults
    /\ ret = NoCall
    /\ call = Idle
    /\ writes = << 0, 0 >>

NextCache ==
    \/ \E i, j \in DOMAIN heap : InvolvedIn(i, j, 0)
    \/ \E i, j \in DOMAIN heap : Involves(i, j, 0)
    \/ \E i, j \in DOMAIN heap : Avoids(i, j, 0)
    \/ \E j \in DOMAIN heap, k \in 0..(MaxCached - 1) : Delete(j, k)

SpecCache == InitCache /\ [][NextCache]_vars

CacheAttrs == {"lower_bound", "upper_bound", "bounds_set"}

\* the cache attributes held by the instance itself
OwnCache(inst) ==
    [a \in (DOMAIN inst.dict) \cap CacheAttrs |-> inst.dict[a]]

\* what a query with this instance as the pattern reads: bounds_set and,
\* when it is set, the two arrays
CacheIsOwn(inst) ==
    IF GetAttr(inst, cls, "bounds_set")
    THEN /\ CacheAttrs \subseteq DOMAIN inst.dict
         /\ << GetAttr(inst, cls, "lower_bound"),
               GetAttr(inst, cls, "upper_bound") >> = set_up_bounds(inst.entries)
    ELSE /\ (DOMAIN inst.dict) \cap CacheAttrs = {}

CacheState ==
    /\ cls = ClassDefaults
    /\ \A i \in DOMAIN heap :
          /\ writes[i] <= 1
          /\ CacheIsOwn(heap[i])
          /\ (writes[i] = 1) <=> GetAttr(heap[i], cls, "bounds_set")
    /\ IsQuery => GetAttr(heap[ret.pattern_id], cls, "bounds_set")

\* a step leaves a filled cache as it is, unless the step replaces the
\* instance by a new one
CacheStep ==
    \A i \in DOMAIN heap :
        \/ ret'.op = "delete" /\ ret'.self = i
        \/ GetAttr(heap[i], cls, "bounds_set") =>
              /\ OwnCache(heap'[i]) = OwnCache(heap[i])
              /\ writes'[i] = writes[i]

\* C10: each instance's cache is assigned at most once, on its first query
\* as the pattern, and is unchanged afterwards; a set cache holds
\* set_up_bounds() of the instance's own entries; the class-level defaults
\* are never modified and are never read as an instance's bounds.
C10_BoundCacheDiscipline == [](CacheState) /\ [][CacheStep]_vars

\* both instances have been the pattern, with different entries, and the
\* last query read a cache filled by an earlier one
C10_Witness ==
    /\ ret.op = "involved_in"
    /\ writes = << 1, 1 >>
    /\ Len(heap[1].entries) = 3
    /\ Len(heap[2].entries) = 3
    /\ OwnCache(heap[1]) # OwnCache(heap[2])
    /\ ret.val = TRUE

-----------------------------------------------------------------------------
(* Decompositions of one permutation P, and recomposition of what they    *)
(* returned                                                                *)

NoValue == "None"

ValueOf(r) == IF r.outcome = "ok" THEN r.val ELSE NoValue

RECURSIVE SumFrom(_, _)
\* sum(components, start): start + c1 + c2 + ...
SumFrom(start, components) ==
    IF Len(components) = 0 THEN start
    ELSE SumFrom(add(start, Head(components)), Tail(components))

RECURSIVE SkewFrom(_, _)
\* the same fold with the skew sum: start - c1 - c2 - ...
SkewFrom(start, components) ==
    IF Len(components) = 0 THEN start
    ELSE SkewFrom(sub(start, Head(components)), Tail(components))

InitDecomp ==
    /\ \E P \in PermsUpTo(MaxLen) : heap = << NewInstance(P) >>
    /\ cls = ClassDefaults
    /\ ret = NoCall
    /\ call = Idle
    /\ writes = << 0 >>

\* the state after a call on heap[1] that touches no attribute
Pure(r) ==
    /\ ret' = r
    /\ UNCHANGED << heap, cls, writes, call >>

\* heap[1].decomposition(): "base = Permutation(self)" runs __init__ on self
Decomposition ==
    /\ ret' = [op |-> "decomposition"] @@ decomposition(heap[1].entries)
    /\ heap' = [heap EXCEPT ![1] = Rewrap(heap[1])]
    /\ UNCHANGED << cls, writes, call >>

\* base.inflate(components) on the pair that decomposition() returned
InflateReturned ==
    /\ ret.op = "decomposition"
    /\ ret.outcome = "ok"
    /\ Pure([op |-> "inflate", base |-> ret.base, components |-> ret.components,
             outcome |-> inflate(ret.base, ret.components).outcome,
             val |-> ValueOf(inflate(ret.base, ret.components))])

SumDecomposition ==
    Pure([op |-> "sum_decomposition", outcome |-> "ok",
          val |-> sum_decomposition(heap[1].entries)])

\* sum(components, Permutation([])) on the list sum_decomposition() returned
SumReturned ==
    /\ ret.op = "sum_decomposition"
    /\ Pure([op |-> "sum", components |-> ret.val, outcome |-> "ok",
             val |-> SumFrom(<< >>, ret.val)])

SkewDecomposition ==
    Pure([op |-> "skew_decomposition", outcome |-> "ok",
          val |-> skew_decomposition(heap[1].entries)])

\* the skew sum, in order, of the list skew_decomposition() returned
SkewReturned ==
    /\ ret.op = "skew_decomposition"
    /\ Pure([op |-> "skew_sum", components |-> ret.val, outcome |-> "ok",
             val |-> SkewFrom(<< >>, ret.val)])

MaximalInterval ==
    Pure([op |-> "maximal_interval", outcome |-> "ok",
          val |-> maximal_interval(heap[1].entries)])

SimpleLocation ==
    Pure([op |-> "simple_location", outcome |-> "ok",
          val |-> simple_location(heap[1].entries)])

SumDecomposable ==
    Pure([op |-> "sum_decomposable", outcome |-> "ok",
          val |-> sum_decomposable(heap[1].entries)])

SkewDecomposable ==
    Pure([op |-> "skew_decomposable", outcome |-> "ok",
          val |-> skew_decomposable(heap[1].entries)])

AllIntervals ==
    Pure([op |-> "all_intervals", outcome |-> "ok",
          val |-> all_intervals(heap[1].entries)])

SetUpBounds ==
    Pure([op |-> "set_up_bounds", outcome |-> "ok",
          val |-> set_up_bounds(heap[1].entries)])

NextDecomp ==
    \/ Decomposition
    \/ InflateReturned
    \/ SumDecomposition
    \/ SumReturned
    \/ SkewDecomposition
    \/ SkewReturned
    \/ MaximalInterval
    \/ SimpleLocation
    \/ SumDecomposable
    \/ SkewDecomposable
    \/ AllIntervals
    \/ SetUpBounds

SpecDecomp == InitDecomp /\ [][NextDecomp]_vars

(* inflate on a base and a list of components of any length *)

InitInflate ==
    /\ \E base \in PermsUpTo(MaxBase), k \in 0..(MaxBase + 1) :
          \E components \in [1..k -> PermsUpTo(MaxBase)] :
             heap = << NewInstance(base) >>
                    \o [m \in 1..k |-> NewInstance(components[m])]
    /\ cls = ClassDefaults
    /\ ret = NoCall
    /\ call = Idle
    /\ writes = [m \in DOMAIN heap |-> 0]

EntriesOf(instances) == [m \in 1..Len(instances) |-> instances[m].entries]

\* heap[1].inflate(components) with the other instances as the components
Inflate ==
    Pure([op |-> "inflate", base |-> heap[1].entries,
          components |-> EntriesOf(Tail(heap)),
          outcome |-> inflate(heap[1].entries, EntriesOf(Tail(heap))).outcome,
          val |-> ValueOf(inflate(heap[1].entries, EntriesOf(Tail(heap))))])

NextInflate == Inflate

SpecInflate == InitInflate /\ [][NextInflate]_vars

-----------------------------------------------------------------------------
(* Properties of the decompositions *)

\* p is a bijection on 0..len-1
IsPermutation(p) ==
    /\ Len(p) \in Nat
    /\ {p[k] : k \in 1..Len(p)} = 0..(Len(p) - 1)

\* positions j..j+i-1 carry a set of consecutive values
IsInterval(p, i, j) ==
    \E a \in 0..(Len(p) - i) :
        {At(p, k) : k \in j..(j + i - 1)} = a..(a + i - 1)

\* some range of 2..len-1 positions is an interval
HasProperInterval(p) ==
    \E i \in 2..(Len(p) - 1) : \E j \in 0..(Len(p) - i) : IsInterval(p, i, j)

RECURSIVE TotalLen(_)
TotalLen(components) ==
    IF Len(components) = 0 THEN 0
    ELSE Len(Head(components)) + TotalLen(Tail(components))

\* C3: decomposition() returns a base with no proper interval and one
\* component per entry of the base, and base.inflate(components) is P.
C3_SubstitutionRoundTrip ==
    /\ ret.op = "decomposition" =>
          /\ ret.outcome = "ok"
          /\ Len(ret.components) = Len(ret.base)
          /\ ~HasProperInterval(ret.base)
    /\ ret.op = "inflate" =>
          /\ ret.outcome = "ok"
          /\ ret.val = heap[1].entries

C3_Witness ==
    /\ ret.op = "inflate"
    /\ Len(heap[1].entries) = 5
    /\ Len(ret.base) = 4
    /\ ret.val = heap[1].entries

\* C4: the direct sum, from the empty permutation, of the components of
\* sum_decomposition() in order is P; the empty permutation has no component.
C4_SumRoundTrip ==
    /\ (ret.op = "sum_decomposition" /\ Len(heap[1].entries) = 0) =>
          ret.val = << >>
    /\ ret.op = "sum" => ret.val = heap[1].entries

C4_Witness ==
    /\ ret.op = "sum"
    /\ Len(ret.components) = 3
    /\ \E m \in 1..3 : Len(ret.components[m]) = 3
    /\ ret.val = heap[1].entries

\* C5: the skew sum of the components of skew_decomposition() in order is
\* P; every component is a permutation of its own length; the list is the
\* complements of the components of P.complement().sum_decomposition(); the
\* empty permutation has no component.
C5_SkewRoundTrip ==
    /\ ret.op = "skew_decomposition" =>
          /\ Len(heap[1].entries) = 0 => ret.val = << >>
          /\ \A m \in 1..Len(ret.val) : IsPermutation(ret.val[m])
          /\ ret.val =
                [m \in 1..Len(sum_decomposition(complement(heap[1].entries))) |->
                    complement(sum_decomposition(complement(heap[1].entries))[m])]
    /\ ret.op = "skew_sum" => ret.val = heap[1].entries

C5_Witness ==
    /\ ret.op = "skew_sum"
    /\ Len(ret.components) = 3
    /\ \E m \in 1..3 : Len(ret.components[m]) = 3
    /\ ret.val = heap[1].entries

\* C6: P has no interval of length 2..len-1 iff maximal_interval() is
\* (0,0), iff simple_location() is (0,0), iff decomposition() returns P
\* itself as the base with one-point components only.
C6_SimplicityAgreement ==
    /\ ret.op = "maximal_interval" =>
          (ret.val = << 0, 0 >> <=> ~HasProperInterval(heap[1].entries))
    /\ ret.op = "simple_location" =>
          (ret.val = << 0, 0 >> <=> ~HasProperInterval(heap[1].entries))
    /\ ret.op = "decomposition" =>
          /\ ret.outcome = "ok"
          /\ (/\ ret.base = heap[1].entries
              /\ \A m \in 1..Len(ret.components) : Len(ret.components[m]) = 1)
             <=> ~HasProperInterval(heap[1].entries)

C6_Witness ==
    /\ ret.op = "decomposition"
    /\ Len(heap[1].entries) >= 4
    /\ ~HasProperInterval(heap[1].entries)
    /\ ret.base = heap[1].entries

\* C9: inflate ends in ValueError, with no result, when the number of
\* components differs from len(base); otherwise it returns a permutation
\* whose length is the sum of the component lengths; the base and the
\* components are as they were.
C9_InflateChecksTheCount ==
    ret.op = "inflate" =>
        /\ Len(ret.components) # Len(ret.base) =>
              /\ ret.outcome = "ValueError"
              /\ ret.val = NoValue
        /\ Len(ret.components) = Len(ret.base) =>
              /\ ret.outcome = "ok"
              /\ IsPermutation(ret.val)
              /\ Len(ret.val) = TotalLen(ret.components)
        /\ EntriesOf(heap) = << ret.base >> \o ret.components

C9_Witness ==
    /\ ret.op = "inflate"
    /\ Len(ret.base) = 2
    /\ Len(ret.components) = 3
    /\ ret.outcome = "ValueError"

-----------------------------------------------------------------------------
(* right_extensions, and containment queries on the instances it returns   *)

\* lines 1216-1217: the entries of self with new_val appended
Extended(self, new_val) ==
    Append([k \in 1..Len(self) |-> IF self[k] < new_val THEN self[k] ELSE self[k] + 1],
           new_val)

\* lines 1219-1222 after test(p) returned r on the heap with p appended to it
ExtendTest(st, r, p, new_val) ==
    [heap     |-> SubSeq(r.heap, 1, Len(st.heap)),
     L        |-> IF r.val THEN Append(st.L, p) ELSE st.L,
     bad_vals |-> IF r.val THEN st.bad_vals ELSE st.bad_vals \cup {new_val}]

RECURSIVE ExtendLoop(_, _, _, _, _)
\* the loop "for new_val in self.insertion_values" over the values vals that
\* are left; test(p) is p.avoids(B=[h[b]])
ExtendLoop(st, c, self, b, vals) ==
    IF Len(vals) = 0 THEN st
    ELSE ExtendLoop(
            ExtendTest(st,
                avoids(st.heap \o << NewInstance(Extended(self, Head(vals))) >>,
                       c, Len(st.heap) + 1, b, 0),
                Extended(self, Head(vals)), Head(vals)),
            c, self, b, Tail(vals))

\* lines 1224-1230: the instances of the list L with their insertion_values
ExtendResult(st, insertion_values) ==
    [heap |-> st.heap,
     val  |-> [m \in 1..Len(st.L) |->
                 SetAttr(NewInstance(st.L[m]), "insertion_values",
                    LET prev == SelectSeq(insertion_values,
                                          LAMBDA val : val \notin st.bad_vals)
                        new_val == At(st.L[m], -1)
                    IN  Append([k \in 1..Len(prev) |->
                                   IF prev[k] < new_val THEN prev[k] ELSE prev[k] + 1],
                               new_val))]]

\* h[j].right_extensions(basis=[h[b]]): the heap afterwards and the list
right_extensions(h, c, j, b) ==
    ExtendResult(
        ExtendLoop([heap |-> h, L |-> << >>, bad_vals |-> {}], c, h[j].entries, b,
                   GetAttr(h[j], c, "insertion_values")),
        GetAttr(h[j], c, "insertion_values"))

\* the state after heap[j] = heap[j].right_extensions(basis=[heap[b]])[k-1]
Extension(r, j, b, k) ==
    /\ k \in 1..Len(r.val)
    /\ heap' = [r.heap EXCEPT ![j] = r.val[k]]
    /\ writes' = [writes EXCEPT
                    ![b] = IF GetAttr(r.heap[b], cls, "bounds_set")
                              /\ ~GetAttr(heap[b], cls, "bounds_set")
                           THEN @ + 1 ELSE @,
                    ![j] = 0]
    /\ ret' = [op |-> "right_extensions", self |-> j, basis |-> b,
               before |-> heap[j].entries, outcome |-> "ok",
               val |-> EntriesOf(r.val)]
    /\ UNCHANGED << cls, call >>

RightExtensions(j, b, k) ==
    /\ j # b
    /\ Len(heap[j].entries) < MaxTgt
    /\ Extension(right_extensions(heap, cls, j, b), j, b, k)

\* instance 1 is the basis element and the pattern, instance 2 the
\* permutation that is extended and queried
NextExtend ==
    \/ \E k \in 1..(MaxTgt + 1) : RightExtensions(2, 1, k)
    \/ InvolvedIn(1, 2, 0)
    \/ Involves(2, 1, 0)
    \/ Avoids(2, 1, 0)

SpecExtend == Init /\ [][NextExtend]_vars

\* the attributes of the instance __dict__ that are not the bound cache
OtherAttrs(inst) ==
    [a \in (DOMAIN inst.dict) \ CacheAttrs |-> inst.dict[a]]

\* a step that is a containment query leaves instance i as it was, up to
\* the bound cache of the pattern
QueryFrame(i) ==
    /\ heap'[i].entries = heap[i].entries
    /\ OtherAttrs(heap'[i]) = OtherAttrs(heap[i])
    /\ i # ret'.pattern_id => OwnCache(heap'[i]) = OwnCache(heap[i])

\* C11: a containment query (involved_in, involves, avoids) changes nothing
\* of the pattern or the target but the pattern's bound cache: the entries
\* and every other instance attribute, insertion_values among them, are the
\* same after the query as before it.
C11_QueriesLeaveOperandsAlone ==
    [][ret'.op \in {"involved_in", "involves", "avoids"} =>
          \A i \in DOMAIN heap : QueryFrame(i)]_vars

-----------------------------------------------------------------------------
(* The transformations: composition, sums, delete, insert, restrict,       *)
(* complement, reverse, inverse                                            *)

\* longest permutation a transformation is applied to or returns
MaxOp == 3

\* Permutation(p) for p neither a Permutation, a string nor an integer
\* (lines 254-259): standardize(p) takes len(set(L)) and then len(L), and
\* len() of a generator raises TypeError
Construct(L, sized) ==
    IF ~sized THEN [outcome |-> "TypeError"]
    ELSE IF ~Distinct(L) THEN [outcome |-> "AssertionError"]
    ELSE [outcome |-> "ok", val |-> standardize(L)]

\* Permutation(p, clean=True): tuple.__new__(cls, p)
Clean(L) == [outcome |-> "ok", val |-> L]

\* self * other
mul(self, other) ==
    IF Len(other) # Len(self) THEN [outcome |-> "AssertionError"]
    ELSE Clean([k \in 1..Len(other) |-> At(self, other[k])])

\* [val for idx, val in enumerate(self) if idx in indices]
AtIndices(self, indices) ==
    LET RECURSIVE from(_)
        from(idx) == IF idx >= Len(self) THEN << >>
                     ELSE (IF idx \in indices THEN << At(self, idx) >> ELSE << >>)
                          \o from(idx + 1)
    IN  from(0)

\* delete(indices=L) for a list L (line 435)
delete_indices(self, indices) ==
    Construct(AtIndices(self, (0..(Len(self) - 1)) \ indices), TRUE)

\* delete(values=L) for a list L (line 442)
delete_values(self, values) ==
    Construct(SelectSeq(self, LAMBDA val : val \notin values), TRUE)

\* delete(values=v) for an integer v (lines 444-446)
delete_value(self, val) ==
    LET kept == SelectSeq(self, LAMBDA old_val : old_val # val)
    IN  Clean([k \in 1..Len(kept) |-> IF kept[k] < val THEN kept[k] ELSE kept[k] - 1])

\* insert(idx, val) for integers 0 <= idx, val <= len(self)
insert(self, idx, val) ==
    LET p == [k \in 1..Len(self) |-> IF self[k] < val THEN self[k] ELSE self[k] + 1]
    IN  Clean(Slice(p, 0, idx) \o << val >> \o Slice(p, idx, Len(p)))

\* restrict(indices=L): Permutation(<generator>) without clean (line 478)
restrict(self, indices) == Construct(AtIndices(self, indices), FALSE)

\* restrict(values=L): Permutation(<generator>) without clean (line 480)
restrict_values(self, values) ==
    Construct(SelectSeq(self, LAMBDA val : val \in values), FALSE)

\* self[::-1]
reverse(self) == [k \in 1..Len(self) |-> self[Len(self) + 1 - k]]

RECURSIVE InverseLoop(_, _, _)
\* for idx, val in enumerate(self): q[val] = idx
InverseLoop(self, q, idx) ==
    IF idx >= Len(self) THEN q
    ELSE InverseLoop(self, Store(q, At(self, idx), idx), idx + 1)

inverse(self) == InverseLoop(self, Repeat(0, Len(self)), 0)

InitTransform ==
    /\ \E P, Q \in PermsUpTo(MaxOp) : heap = << NewInstance(P), NewInstance(Q) >>
    /\ cls = ClassDefaults
    /\ ret = NoCall
    /\ call = Idle
    /\ writes = << 0, 0 >>

\* heap[3-i] = heap[i].name(...), which returned r or raised: the name of
\* the other instance is bound to the value returned
Transformed(r, name, i) ==
    /\ r.outcome = "ok" => Len(r.val) <= MaxOp
    /\ heap' = IF r.outcome = "ok"
               THEN [heap EXCEPT ![3 - i] = NewInstance(r.val)]
               ELSE heap
    /\ writes' = IF r.outcome = "ok" THEN [writes EXCEPT ![3 - i] = 0] ELSE writes
    /\ ret' = [op |-> name, self_id |-> i, self |-> heap[i].entries,
               other |-> heap[3 - i].entries,
               outcome |-> r.outcome, val |-> ValueOf(r)]
    /\ UNCHANGED << cls, call >>

Mul(i) ==
    /\ Len(heap[i].entries) = Len(heap[3 - i].entries)
    /\ Transformed(mul(heap[i].entries, heap[3 - i].entries), "mul", i)

Add(i) == Transformed(Clean(add(heap[i].entries, heap[3 - i].entries)), "add", i)

Sub(i) == Transformed(Clean(sub(heap[i].entries, heap[3 - i].entries)), "sub", i)

DeleteIndex(i, k) ==
    /\ k \in 0..(Len(heap[i].entries) - 1)
    /\ Transformed(Clean(delete(heap[i].entries, k)), "delete", i)

DeleteIndices(i, S) ==
    /\ S \subseteq 0..(Len(heap[i].entries) - 1)
    /\ Transformed(delete_indices(heap[i].entries, S), "delete", i)

DeleteValue(i, v) ==
    /\ v \in 0..(Len(heap[i].entries) - 1)
    /\ Transformed(delete_value(heap[i].entries, v), "delete", i)

DeleteValues(i, S) ==
    /\ S \subseteq 0..(Len(heap[i].entries) - 1)
    /\ Transformed(delete_values(heap[i].entries, S), "delete", i)

Insert(i, idx, val) ==
    /\ idx \in 0..Len(heap[i].entries)
    /\ val \in 0..Len(heap[i].entries)
    /\ Transformed(insert(heap[i].entries, idx, val), "insert", i)

Restrict(i, S) ==
    /\ S \subseteq 0..(Len(heap[i].entries) - 1)
    /\ Transformed(restrict(heap[i].entries, S), "restrict", i)

RestrictValues(i, S) ==
    /\ S \subseteq 0..(Len(heap[i].entries) - 1)
    /\ Transformed(restrict_values(heap[i].entries, S), "restrict", i)

Complement(i) == Transformed(Clean(complement(heap[i].entries)), "complement", i)

Reverse(i) == Transformed(Clean(reverse(heap[i].entries)), "reverse", i)

Inverse(i) == Transformed(Clean(inverse(heap[i].entries)), "inverse", i)

NextTransform ==
    \E i \in 1..2 :
        \/ Mul(i)
        \/ Add(i)
        \/ Sub(i)
        \/ \E k \in 0..(MaxOp - 1) : DeleteIndex(i, k)
        \/ \E S \in SUBSET (0..(MaxOp - 1)) : DeleteIndices(i, S)
        \/ \E v \in 0..(MaxOp - 1) : DeleteValue(i, v)
        \/ \E S \in SUBSET (0..(MaxOp - 1)) : DeleteValues(i, S)
        \/ \E idx, val \in 0..MaxOp : Insert(i, idx, val)
        \/ \E S \in SUBSET (0..(MaxOp - 1)) : Restrict(i, S)
        \/ \E S \in SUBSET (0..(MaxOp - 1)) : RestrictValues(i, S)
        \/ Complement(i)
        \/ Reverse(i)
        \/ Inverse(i)

SpecTransform == InitTransform /\ [][NextTransform]_vars

IsTransformation ==
    ret.op \in {"mul", "add", "sub", "delete", "insert", "restrict",
                "complement", "reverse", "inverse"}

\* the call returned a bijection on 0..m-1 and its operand is as it was
ReturnedPermutation ==
    /\ ret.outcome = "ok"
    /\ IsPermutation(ret.val)
    /\ heap[ret.self_id].entries = ret.self

\* what C12 says of every transformation but restrict
ClosedButRestrict ==
    /\ \A i \in DOMAIN heap : IsPermutation(heap[i].entries)
    /\ (IsTransformation /\ ret.op # "restrict") => ReturnedPermutation

\* C12: every transformation (composition of equal lengths, direct and skew
\* sum, delete by index or value, single or list, insert(idx, val) with
\* 0 <= idx, val <= n, restrict, complement, reverse, inverse), in any
\* sequence from valid permutations, returns a bijection on 0..m-1 for its
\* own length m and leaves the entries of its operand as they were.
C12_TransformationsReturnPermutations ==
    /\ \A i \in DOMAIN heap : IsPermutation(heap[i].entries)
    /\ IsTransformation => ReturnedPermutation

-----------------------------------------------------------------------------
(* Terminal cases, cuts, intervals and bounds of one permutation P         *)

\* 0 1 ... n-1 and n-1 ... 1 0
Identity(n) == [k \in 1..n |-> k - 1]
Decreasing(n) == [k \in 1..n |-> n - k]

\* n copies of the one-point permutation
OnePoints(n) == [k \in 1..n |-> << 0 >>]

\* C13: the identity of length n >= 1 has sum_decomposition equal to n
\* one-point components; for n > 1 the decreasing permutation of length n
\* has sum_decomposable() False, sum_decomposition() the list of itself
\* alone, and skew_decomposition() equal to n one-point components.
C13_TerminalCases ==
    LET P == heap[1].entries
        n == Len(P)
    IN  /\ (n >= 1 /\ P = Identity(n) /\ ret.op = "sum_decomposition") =>
              ret.val = OnePoints(n)
        /\ (n > 1 /\ P = Decreasing(n)) =>
              /\ ret.op = "sum_decomposable" => ret.val = FALSE
              /\ ret.op = "sum_decomposition" => ret.val = << P >>
              /\ ret.op = "skew_decomposition" => ret.val = OnePoints(n)

C13_Witness ==
    /\ ret.op = "skew_decomposition"
    /\ heap[1].entries = Decreasing(5)
    /\ ret.val = OnePoints(5)

\* C14: simple_location() returns (i, j) with 2 <= i <= len-1 and positions
\* j..j+i-1 carrying a contiguous set of values whenever P has such an
\* interval, and (0,0) if it has none.
C14_SimpleLocationIsSizeAndStart ==
    ret.op = "simple_location" =>
        IF HasProperInterval(heap[1].entries)
        THEN /\ ret.val[1] \in 2..(Len(heap[1].entries) - 1)
             /\ ret.val[2] \in 0..(Len(heap[1].entries) - ret.val[1])
             /\ IsInterval(heap[1].entries, ret.val[1], ret.val[2])
        ELSE ret.val = << 0, 0 >>

\* the lengths in 2..len-1 at which P has an interval, and the starts of
\* the intervals of one length
IntervalLengths(P) ==
    {i \in 2..(Len(P) - 1) : \E j \in 0..(Len(P) - i) : IsInterval(P, i, j)}

IntervalStarts(P, i) == {j \in 0..(Len(P) - i) : IsInterval(P, i, j)}

\* the first start of the last non-empty block, (0,0) if all are empty
LastBlock(blocks) ==
    IF \A i \in 1..Len(blocks) : blocks[i] = << >> THEN << 0, 0 >>
    ELSE LET i == Max({k \in 1..Len(blocks) : blocks[k] # << >>})
         IN  << i - 1, blocks[i][1] >>

\* C15: maximal_interval() is (i, j) with i the largest length in 2..len-1
\* that has an interval and j the smallest start of an interval of that
\* length, and (0,0) iff there is none; blocks[i] of all_intervals() lists
\* exactly the starts of the intervals of length i for 2 <= i <= len-1, and
\* the first start of the last non-empty block is maximal_interval().
C15_LargestLeftmostInterval ==
    LET P == heap[1].entries
    IN  /\ ret.op = "maximal_interval" =>
              IF IntervalLengths(P) = {} THEN ret.val = << 0, 0 >>
              ELSE /\ ret.val[1] = Max(IntervalLengths(P))
                   /\ ret.val[2] = Min(IntervalStarts(P, ret.val[1]))
                   /\ IsBlock(P, ret.val[1], ret.val[2])
        /\ ret.op = "all_intervals" =>
              /\ \A i \in 2..(Len(P) - 1) :
                    /\ {At(ret.val, i)[k] : k \in 1..Len(At(ret.val, i))}
                          = IntervalStarts(P, i)
                    /\ Len(At(ret.val, i)) = Cardinality(IntervalStarts(P, i))
              /\ LastBlock(ret.val) = maximal_interval(P)

C15_Witness ==
    /\ ret.op = "all_intervals"
    /\ Len(heap[1].entries) = 5
    /\ Len(At(ret.val, 2)) = 2
    /\ At(ret.val, 3) # << >>
    /\ At(ret.val, 4) = << >>
    /\ maximal_interval(heap[1].entries)[2] > 0

\* the least k < len-1 with the first k+1 values equal to 0..k, or -1
LeftmostCut(P) ==
    LET cuts == {k \in 0..(Len(P) - 2) : {At(P, m) : m \in 0..k} = 0..k}
    IN  IF cuts = {} THEN -1 ELSE Min(cuts)

\* C16: for non-empty P, sum_decomposition() cuts at the leftmost k < len-1
\* at which the first k+1 values are 0..k: the first component is P on
\* positions 0..k (P itself if there is no such k), every component has
\* sum_decomposable() False, and sum_decomposable() is True iff there is
\* more than one component.
C16_LeftmostCutFirst ==
    LET P == heap[1].entries
    IN  Len(P) >= 1 =>
          /\ ret.op = "sum_decomposition" =>
                /\ ret.val[1] = IF LeftmostCut(P) = -1 THEN P
                                ELSE Slice(P, 0, LeftmostCut(P) + 1)
                /\ \A m \in 1..Len(ret.val) :
                      /\ ~sum_decomposable(ret.val[m])
                      /\ LeftmostCut(ret.val[m]) = -1
                /\ sum_decomposable(P) <=> Len(ret.val) > 1
          /\ ret.op = "sum_decomposable" =>
                /\ ret.val = (LeftmostCut(P) # -1)
                /\ ret.val = (Len(sum_decomposition(P)) > 1)

C16_Witness ==
    /\ ret.op = "sum_decomposition"
    /\ Len(heap[1].entries) = 6
    /\ Len(ret.val) = 3
    /\ Len(ret.val[1]) = 2
    /\ Len(ret.val[2]) = 3

\* the later positions whose value is below, and above, the value at i
LaterBelow(P, i) == {j \in (i + 1)..(Len(P) - 1) : At(P, j) < At(P, i)}
LaterAbove(P, i) == {j \in (i + 1)..(Len(P) - 1) : At(P, j) > At(P, i)}

\* C17: set_up_bounds() returns (lower_bound, upper_bound) with, for every
\* position i, lower_bound[i] the later position holding the largest value
\* below entries[i] and upper_bound[i] the later position holding the
\* smallest value above entries[i], each -1 if there is no such position;
\* every bound other than -1 is greater than i and less than len.
C17_BoundsAreNearestLaterValues ==
    LET P == heap[1].entries
    IN  ret.op = "set_up_bounds" =>
          /\ Len(ret.val[1]) = Len(P)
          /\ Len(ret.val[2]) = Len(P)
          /\ \A i \in 0..(Len(P) - 1) :
                /\ At(ret.val[1], i) =
                      IF LaterBelow(P, i) = {} THEN -1
                      ELSE CHOOSE j \in LaterBelow(P, i) :
                              \A k \in LaterBelow(P, i) : At(P, k) <= At(P, j)
                /\ At(ret.val[2], i) =
                      IF LaterAbove(P, i) = {} THEN -1
                      ELSE CHOOSE j \in LaterAbove(P, i) :
                              \A k \in LaterAbove(P, i) : At(P, k) >= At(P, j)
                /\ \A b \in {At(ret.val[1], i), At(ret.val[2], i)} :
                      b # -1 => (b > i /\ b < Len(P))

C17_Witness ==
    /\ ret.op = "set_up_bounds"
    /\ Len(heap[1].entries) = 5
    /\ At(ret.val[1], 0) = 2
    /\ At(ret.val[2], 0) = 3
    /\ 1 \in LaterBelow(heap[1].entries, 0)
    /\ 4 \in LaterBelow(heap[1].entries, 0)

-----------------------------------------------------------------------------
(* The containment search step by step: heap[1].involved_in(heap[2]) with  *)
(* last_require = 0.  The frames of involvement_check differ in "next"     *)
(* only and are nested by descending next, so the stack is the current     *)
(* next and the number of frames; the loop of involved_in itself is the    *)
(* level len(self)-1.                                                      *)

\* longest pattern and longest target of a search followed step by step;
\* the target is also the permutation whose decompositions are followed
MaxStepPat == 3
MaxStepTgt == 4

InitSteps ==
    /\ \E A \in PermsUpTo(MaxStepPat), B \in PermsUpTo(MaxStepTgt) :
          heap = << NewInstance(A), NewInstance(B) >>
    /\ cls = ClassDefaults
    /\ ret = NoCall
    /\ call = Idle
    /\ writes = << 0, 0 >>

Running == call.pc \notin {"idle", "done"}

\* involved_in returns val: the frames are gone, the indices stay as the
\* search left them
SearchReturns(c, val) ==
    /\ call' = [c EXCEPT !.pc = "done", !.depth = 0]
    /\ ret' = [op |-> "involved_in", pattern_id |-> 1, target_id |-> 2,
               last_require |-> 0, pattern |-> heap[1].entries,
               target |-> heap[2].entries, outcome |-> "ok", val |-> val]

\* lines 1017-1031 on the heap h in which P is re-wrapped and the cache of
\* self is set up
SearchStarts(h, n, p) ==
    /\ heap' = h
    /\ writes' = IF GetAttr(heap[1], cls, "bounds_set") THEN writes
                 ELSE [writes EXCEPT ![1] = @ + 1]
    /\ IF IsDegenerate(n, p)
       THEN SearchReturns([op |-> "involved_in", pc |-> "done", depth |-> 0,
                           next |-> n - 1, indices |-> << >>], TRUE)
       ELSE /\ call' = [op |-> "involved_in", pc |-> "while", depth |-> 0,
                        next |-> n - 1,
                        indices |-> Store(Repeat(0, n), n - 1, p - 1)]
            /\ UNCHANGED ret
    /\ UNCHANGED cls

InvolvedInBegin ==
    /\ ~Running
    /\ SearchStarts(FillCache([heap EXCEPT ![2] = Rewrap(heap[2])], cls, 1),
                    Len(heap[1].entries), Len(heap[2].entries))

\* lines 1032-1036: the test of "while indices[len(self)-1] >= 0", then the
\* call of involvement_check with next = len(self)-2, or return False
TopLoop ==
    /\ call.pc = "while"
    /\ call.op = "involved_in"
    /\ call.next = Len(heap[1].entries) - 1
    /\ IF At(call.indices, call.next) < 0
       THEN SearchReturns(call, FALSE)
       ELSE /\ call' = [call EXCEPT !.pc = "enter", !.next = @ - 1,
                                    !.depth = @ + 1]
            /\ UNCHANGED ret
    /\ UNCHANGED << heap, cls, writes >>

\* a variant that starts level next at the index fixed at next+1
CheckEnterSameIndex ==
    /\ call.pc = "enter"
    /\ call.op = "involved_in"
    /\ IF call.next < 0
       THEN SearchReturns(call, TRUE)
       ELSE /\ call' = [call EXCEPT
                          !.pc = "while",
                          !.indices = Store(@, call.next, At(@, call.next + 1))]
            /\ UNCHANGED ret
    /\ UNCHANGED << heap, cls, writes >>

\* lines 1052-1055: involvement_check is entered; with next < 0 it returns
\* True and so does every frame above it
CheckEnter ==
    /\ call.pc = "enter"
    /\ call.op = "involved_in"
    /\ IF call.next < 0
       THEN SearchReturns(call, TRUE)
       ELSE /\ call' = [call EXCEPT
                          !.pc = "while",
                          !.indices = Store(@, call.next,
                                            At(@, call.next + 1) - 1)]
            /\ UNCHANGED ret
    /\ UNCHANGED << heap, cls, writes >>

\* lines 1057-1062: the test of "while indices[next] >= 0" in the frame of
\* level next.  When it fails the frame returns False and its caller takes
\* "indices[next] -= 1" for its own next (line 1061, or line 1035 in
\* involved_in); when involvement_fits fails, line 1061 of this frame.
CheckLoop ==
    /\ call.pc = "while"
    /\ call.op = "involved_in"
    /\ call.next < Len(heap[1].entries) - 1
    /\ call' =
         IF At(call.indices, call.next) < 0
         THEN [call EXCEPT !.next = @ + 1, !.depth = @ - 1,
                           !.indices = Store(@, call.next + 1,
                                             At(@, call.next + 1) - 1)]
         ELSE IF ~involvement_fits(GetAttr(heap[1], cls, "upper_bound"),
                                   GetAttr(heap[1], cls, "lower_bound"),
                                   call.indices, heap[2].entries, call.next)
         THEN [call EXCEPT !.indices = Store(@, call.next,
                                             At(@, call.next) - 1)]
         ELSE [call EXCEPT !.pc = "enter", !.next = @ - 1, !.depth = @ + 1]
    /\ UNCHANGED << heap, cls, ret, writes >>

SearchStep == TopLoop \/ CheckEnter \/ CheckLoop

-----------------------------------------------------------------------------
(* heap[2].decomposition() iteration by iteration, and the recursions of   *)
(* heap[2].sum_decomposition() and heap[2].skew_decomposition() call by    *)
(* call                                                                    *)

\* a variant that keeps every entry of the interval in the base
NewBaseKeepsInterval(base, ij) == Construct(base, TRUE)

\* lines 1168-1170 and 1174: Permutation(new_base) for the interval (i, j)
NewBase(base, ij) ==
    Construct(Slice(base, 0, ij[2]) \o << At(base, ij[2]) >>
              \o Slice(base, ij[1] + ij[2], Len(base)), TRUE)

\* line 1167 and 1172: Permutation(interval)
NewComponent(base, ij) == Construct(Slice(base, ij[2], ij[1] + ij[2]), TRUE)

\* a variant that takes the components after the interval from i+j-1 on
NewComponentsOverlap(base, components, ij, c) ==
    Slice(components, 0, ij[2]) \o << c >>
        \o Slice(components, ij[1] + ij[2] - 1, Len(base))

\* lines 1171-1173: new_components around the component c
NewComponents(base, components, ij, c) ==
    Slice(components, 0, ij[2]) \o << c >>
        \o Slice(components, ij[1] + ij[2], Len(base))

\* the call that is followed returns or raises
Finished(r) ==
    /\ call' = [call EXCEPT !.pc = "done"]
    /\ ret' = r

\* lines 1161-1162
DecompositionBegin ==
    /\ ~Running
    /\ heap' = [heap EXCEPT ![2] = Rewrap(heap[2])]
    /\ call' = [op |-> "decomposition", pc |-> "while", iterations |-> 0,
                base |-> heap[2].entries,
                components |-> Repeat(standardize(<< 1 >>), Len(heap[2].entries))]
    /\ UNCHANGED << cls, ret, writes >>

\* one pass of lines 1165-1175 for the interval ij that maximal_interval
\* returned, in which c and b are the new component and the new base
DecompositionPass(ij, c, b) ==
    IF ij[1] = 0 \/ c.outcome # "ok" \/ b.outcome # "ok"
    THEN Finished([op |-> "decomposition", outcome |-> "AssertionError"])
    ELSE /\ call' = [call EXCEPT
                       !.base = b.val,
                       !.components = NewComponents(call.base, @, ij, c.val),
                       !.iterations = @ + 1]
         /\ UNCHANGED ret

\* lines 1163-1176: the test of "while not base.is_simple()", then one pass
\* of the loop, or the return
DecompositionIter ==
    /\ call.pc = "while"
    /\ call.op = "decomposition"
    /\ IF is_simple(call.base)
       THEN Finished([op |-> "decomposition", outcome |-> "ok",
                      base |-> call.base, components |-> call.components])
       ELSE IF Len(call.base) # Len(call.components)
       THEN Finished([op |-> "decomposition", outcome |-> "AssertionError"])
       ELSE DecompositionPass(maximal_interval(call.base),
                              NewComponent(call.base, maximal_interval(call.base)),
                              NewBase(call.base, maximal_interval(call.base)))
    /\ UNCHANGED << heap, cls, writes >>

\* sum_decomposition or skew_decomposition is called on heap[2]: the frame
\* of depth d has the remainder "self" of the frame of depth d-1; "head"
\* holds the components the frames above will put in front of its result
SplitBegin(name) ==
    /\ ~Running
    /\ call' = [op |-> name, pc |-> "call", depth |-> 0,
                self |-> heap[2].entries, head |-> << >>]
    /\ UNCHANGED << heap, cls, ret, writes >>

SumBegin == SplitBegin("sum_decomposition")

SkewBegin == SplitBegin("skew_decomposition")

\* one frame of the recursion: split is the list the frame returns without
\* recursing (empty, or self alone), or the component and the remainder
SplitCall(name, split) ==
    /\ call.pc = "call"
    /\ call.op = name
    /\ IF Len(split) < 2
       THEN Finished([op |-> name, outcome |-> "ok", val |-> call.head \o split])
       ELSE /\ call' = [call EXCEPT !.head = Append(@, split[1]),
                                    !.self = split[2], !.depth = @ + 1]
            /\ UNCHANGED ret
    /\ UNCHANGED << heap, cls, writes >>

\* lines 606-622 in the frame of self, for the cut idx its loop found
SumFrame(self, idx) ==
    IF Len(self) = 0 THEN << >>
    ELSE IF idx = -1 THEN << self >>
    ELSE << Slice(self, 0, idx + 1),
            [k \in 1..(Len(self) - idx - 1) |-> self[idx + 1 + k] - idx - 1] >>

\* lines 657-673 in the frame of self, for the cut idx its loop found
SkewFrame(self, idx) ==
    IF Len(self) = 0 THEN << >>
    ELSE IF idx = -1 THEN << self >>
    ELSE << [k \in 1..(idx + 1) |-> self[k] - (Len(self) - idx) + 1],
            Slice(self, idx + 1, Len(self)) >>

SumCall ==
    SplitCall("sum_decomposition", SumFrame(call.self, SumCut(call.self, 0, {}, {})))

SkewCall ==
    SplitCall("skew_decomposition",
              SkewFrame(call.self, SkewCut(call.self, 0, {}, {})))

\* a step of the call that is followed
Step == SearchStep \/ DecompositionIter \/ SumCall \/ SkewCall

NextSteps ==
    \/ InvolvedInBegin
    \/ DecompositionBegin
    \/ SumBegin
    \/ SkewBegin
    \/ TopLoop
    \/ CheckEnter
    \/ CheckLoop
    \/ DecompositionIter
    \/ SumCall
    \/ SkewCall

SpecSteps == InitSteps /\ [][NextSteps]_vars

-----------------------------------------------------------------------------
(* Properties of the search and of the decomposition loop, step by step    *)

Searching == Running /\ call.op = "involved_in"

\* the pattern positions above level k: their indices are fixed while
\* level k is tried
Above(k) == (k + 1)..(Len(heap[1].entries) - 1)

\* the indices at the positions above k are increasing indices of the
\* target B whose values are ordered as the entries of the pattern A there
PartialOccurrence(A, B, indices, k) ==
    /\ \A a \in Above(k) : At(indices, a) \in 0..(Len(B) - 1)
    /\ \A a, b \in Above(k) :
          /\ a < b => At(indices, a) < At(indices, b)
          /\ (At(A, a) < At(A, b)) <=>
                (At(B, At(indices, a)) < At(B, At(indices, b)))

\* the bound indices involvement_fits reads for level k
BoundsRead(k) ==
    {At(GetAttr(heap[1], cls, "lower_bound"), k),
     At(GetAttr(heap[1], cls, "upper_bound"), k)} \ {-1}

SearchState ==
    Searching =>
        /\ PartialOccurrence(heap[1].entries, heap[2].entries,
                             call.indices, call.next)
        /\ (call.pc = "while" /\ call.next < Len(heap[1].entries) - 1) =>
              /\ At(call.indices, call.next) < At(call.indices, call.next + 1)
              /\ At(call.indices, call.next) >= 0 =>
                    \A b \in BoundsRead(call.next) :
                        /\ b \in Above(call.next)
                        /\ At(call.indices, b) \in 0..(Len(heap[2].entries) - 1)

\* from one test of a level's loop to the next the candidate of the level
\* tested goes down by one and the indices above it stay; the complete
\* assignment ends the search with True
SearchMove ==
    Searching =>
        /\ (call.pc = "while" /\ call'.pc = "while") =>
              /\ At(call'.indices, call'.next) = At(call.indices, call'.next) - 1
              /\ \A m \in Above(call'.next) :
                    At(call'.indices, m) = At(call.indices, m)
        /\ (call.pc = "enter" /\ call.next = -1) =>
              /\ call'.pc = "done"
              /\ call'.indices = call.indices
              /\ ret'.val = TRUE

\* C18: while level k of the search is tried the indices at the pattern
\* positions k+1..n-1 are strictly increasing, lie in 0..len(target)-1 and
\* carry target values order-isomorphic to the pattern entries there; each
\* candidate for level k is below the index fixed at k+1 and the candidates
\* go down one by one; every bound index involvement_fits reads for level k
\* is a position above k whose index is assigned; the search returns True
\* at the first complete assignment.
C18_SearchInvariant == [](SearchState) /\ [][SearchMove]_vars

\* level 0 of a pattern of length 3 is tried after level 1 has moved down
\* from its first candidate
C18_Witness ==
    /\ Searching
    /\ call.pc = "while"
    /\ call.next = 0
    /\ Len(heap[1].entries) = 3
    /\ At(call.indices, 0) >= 0
    /\ At(call.indices, 1) < At(call.indices, 2) - 1

Decomposing == call.op = "decomposition" /\ call.pc = "while"

\* the positions j..j+i-1 of the interval (i, j)
IntervalPositions(ij) == ij[2]..(ij[1] + ij[2] - 1)

\* C19: at the start of every iteration of the loop of decomposition() the
\* base is a permutation, len(base) == len(components), the component
\* lengths sum to len(P) and base.inflate(components) == P; when the base
\* is not simple maximal_interval() returns a non-zero length, so no
\* assertion fails; the components at the positions j..j+i-1 that the
\* iteration replaces are all one-point components.
C19_DecompositionLoopInvariant ==
    /\ Decomposing =>
          /\ IsPermutation(call.base)
          /\ Len(call.base) = Len(call.components)
          /\ TotalLen(call.components) = Len(heap[2].entries)
          /\ inflate(call.base, call.components) =
                [outcome |-> "ok", val |-> heap[2].entries]
          /\ ~is_simple(call.base) =>
                /\ maximal_interval(call.base)[1] # 0
                /\ \A m \in IntervalPositions(maximal_interval(call.base)) :
                      Len(At(call.components, m)) = 1
    /\ (call.op = "decomposition" /\ call.pc = "done") => ret.outcome = "ok"

\* the second iteration is about to start on a base that is not simple
C19_Witness ==
    /\ Decomposing
    /\ call.iterations = 1
    /\ ~is_simple(call.base)
    /\ \E m \in 1..Len(call.components) : Len(call.components[m]) = 2

-----------------------------------------------------------------------------
(* Termination: one call per behaviour, which goes on until it returns     *)

\* longest pattern and longest target (and decomposed permutation) of the
\* calls whose termination is followed
MaxRunPat == 2
MaxRunTgt == 3

InitRun ==
    /\ \E A \in PermsUpTo(MaxRunPat), B \in PermsUpTo(MaxRunTgt) :
          heap = << NewInstance(A), NewInstance(B) >>
    /\ cls = ClassDefaults
    /\ ret = NoCall
    /\ call = Idle
    /\ writes = << 0, 0 >>

\* the one call of the behaviour is made
Begin ==
    /\ call = Idle
    /\ \/ InvolvedInBegin
       \/ DecompositionBegin
       \/ SumBegin
       \/ SkewBegin

NextRun == Begin \/ Step

\* the interpreter goes on with a call that has not returned
SpecRun == InitRun /\ [][NextRun]_vars /\ WF_vars(Step)

RECURSIVE Pow(_, _)
Pow(b, e) == IF e = 0 THEN 1 ELSE b * Pow(b, e - 1)

RECURSIVE Weighted(_, _, _)
\* digit(0) * b + digit(1) * b^2 + ... + digit(n-1) * b^n
Weighted(digit, b, n) ==
    IF n = 0 THEN 0 ELSE digit[n - 1] * Pow(b, n) + Weighted(digit, b, n - 1)

\* the search state as a number: the index of each level that is fixed or
\* under test is a digit, the highest level the most significant; a level
\* not yet entered counts as len(target), above every index; the last
\* digit tells a loop test from a call about to be entered
SearchMeasure(c, n, p) ==
    IF c.pc = "done" THEN 0
    ELSE (IF c.pc = "while" THEN 1 ELSE 0)
         + Weighted([m \in 0..(n - 1) |->
                       IF m > c.next \/ (m = c.next /\ c.pc = "while")
                       THEN At(c.indices, m) + 1 ELSE p + 1],
                    p + 2, n)

Splitting == Running /\ call.op \in {"sum_decomposition", "skew_decomposition"}

\* the depths and the number of iterations, the latter at most maxIter
RunBounds(maxIter) ==
    /\ Searching =>
          /\ call.depth <= Len(heap[1].entries)
          /\ call.depth = Len(heap[1].entries) - 1 - call.next
          /\ \A m \in 0..(Len(heap[1].entries) - 1) : At(call.indices, m) >= -1
    /\ Splitting =>
          /\ call.depth <= Len(heap[2].entries)
          /\ Len(call.self) <= Len(heap[2].entries) - call.depth
    /\ call.op = "decomposition" => call.iterations <= maxIter

\* a step of the search lowers its measure, a recursive call of a sum or
\* skew decomposition is on a shorter remainder, an iteration of
\* decomposition() shortens the base by the interval length less one
RunShrinks ==
    /\ Searching =>
          SearchMeasure(call', Len(heap[1].entries), Len(heap[2].entries))
             < SearchMeasure(call, Len(heap[1].entries), Len(heap[2].entries))
    /\ (Splitting /\ call'.pc # "done") =>
          /\ call'.depth = call.depth + 1
          /\ Len(call'.self) < Len(call.self)
    /\ (Decomposing /\ call'.pc # "done") =>
          /\ call'.iterations = call.iterations + 1
          /\ maximal_interval(call.base)[1] - 1 >= 1
          /\ Len(call'.base) = Len(call.base) - (maximal_interval(call.base)[1] - 1)

\* C20: every call terminates: the search after finitely many steps with
\* at most len(pattern) frames of involvement_check, each candidate index
\* going down and never below -1; sum_decomposition and skew_decomposition
\* recursing on a strictly shorter remainder to a depth of at most len(P);
\* decomposition() shortening its base by the interval length less one,
\* at least 1, in each iteration, so that its loop runs at most len(P) - 1
\* times.
C20_EveryCallTerminates ==
    /\ [](RunBounds(Len(heap[2].entries) - 1))
    /\ [][RunShrinks]_vars
    /\ Running ~> ~Running

\* C20 as amended: the same, with the loop of decomposition() running at
\* most len(P) - 1 times for a non-empty P and not at all for the empty P.
C20_EveryCallTerminatesAmended ==
    /\ [](RunBounds(Max2(Len(heap[2].entries) - 1, 0)))
    /\ [][RunShrinks]_vars
    /\ Running ~> ~Running

\* decomposition() has returned after an iteration of its loop
C20_Witness ==
    /\ call.op = "decomposition"
    /\ call.pc = "done"
    /\ call.iterations = 1
    /\ Len(heap[2].entries) = 3
    /\ Len(call.base) = 2

=============================================================================
